---- MODULE Spec2Model ----
(***************************************************************************)
(* A model of src/modelling/transformer.py: the learning-rate schedule     *)
(* (warmup_schedule), the training loop (train, _train_step, _val_step),   *)
(* the attention masks (_make_mask, forward) and autoregressive sampling   *)
(* (generate).                                                             *)
(*                                                                         *)
(* Real numbers.  Losses are kept as exact fractions <<numerator,          *)
(* denominator>>.  The schedule factor is kept in fixed point with SCALE   *)
(* units per 1.0; math.cos is evaluated by range reduction and a Taylor    *)
(* polynomial in the same fixed point (within 2 units of math.cos).               *)
(*                                                                         *)
(* Objects.  Python lists and tensors are mutable and are held by          *)
(* reference; the model keeps them on heaps (lists, tensors) and the       *)
(* program variables hold indices into the heaps.                          *)
(***************************************************************************)
EXTENDS Integers, Sequences, FiniteSets

VARIABLES
    \* ---- train ----
    pc,               \* position of train's control flow
    exception,        \* "" or the name of the exception train raised
    n_epochs,         \* argument
    n_batches,        \* len(train_data)
    n_val_batches,    \* len(val_data)
    warmup_halves,    \* argument warmup_epochs, counted in halves of an epoch
    learning_rate,    \* argument learning_rate, in units of the base step
    n_warmup_steps,   \* line 177
    n_steps,          \* line 178
    last_epoch,       \* LambdaLR's step index (lrs.last_epoch)
    lr,               \* the optimizer's current rate (param_groups[0]["lr"])
    epoch,            \* loop variable of line 186
    i,                \* training batches done in the current epoch
    j,                \* validation batches done in the current epoch
    loss_train,       \* accumulator of line 187
    loss_val,         \* accumulator of line 197
    train_losses,     \* dict epoch -> loss
    val_losses,       \* dict epoch -> loss
    best_checkpoint,  \* <<>> while unbound, else <<[state_dict, loss, epoch]>>
    tensors,          \* heap of tensor storages: index -> parameter values
    stopped,          \* the value _early_stop last returned
    lr_used,          \* history: the rate each optimizer.step() was applied with
    val_steps,        \* history: number of _val_step calls
    params_hist,      \* history: epoch -> parameter values at the end of that epoch
    \* ---- warmup_schedule on its own ----
    ws_step, ws_warmup, ws_max, ws_prev, ws_factor, ws_exception,
    \* ---- forward / _make_mask ----
    n_heads, pad_token_idx, x_batch, tgt_mask, memory_mask,
    tgt_key_padding_mask, memory_key_padding_mask,
    \* ---- generate ----
    gen_pc, lists, prompt_tokens, token_sequence, output_length, temperature,
    iteration, sampler_logits, raw_logits, new_token_sequence,
    prompt_given, model_inputs, sampled

train_vars == <<pc, exception, n_epochs, n_batches, n_val_batches, warmup_halves,
                learning_rate, n_warmup_steps, n_steps, last_epoch, lr, epoch, i, j,
                loss_train, loss_val, train_losses, val_losses, best_checkpoint,
                tensors, stopped, lr_used, val_steps, params_hist>>
sched_vars == <<ws_step, ws_warmup, ws_max, ws_prev, ws_factor, ws_exception>>
mask_vars == <<n_heads, pad_token_idx, x_batch, tgt_mask, memory_mask,
               tgt_key_padding_mask, memory_key_padding_mask>>
gen_vars == <<gen_pc, lists, prompt_tokens, token_sequence, output_length,
              temperature, iteration, sampler_logits, raw_logits,
              new_token_sequence, prompt_given, model_inputs, sampled>>
vars == <<train_vars, sched_vars, mask_vars, gen_vars>>

\* A step of one part of the file leaves the variables of the other parts alone.
TrainOnly == UNCHANGED <<sched_vars, mask_vars, gen_vars>>
ScheduleOnly == UNCHANGED <<train_vars, mask_vars, gen_vars>>
MaskOnly == UNCHANGED <<train_vars, sched_vars, gen_vars>>
GenerateOnly == UNCHANGED <<train_vars, sched_vars, mask_vars>>

----------------------------------------------------------------------------
\* Bounds of the model.
MaxEpochs == 3
MaxBatches == 2
MaxValBatches == 1
MaxWarmupHalves == 2
MaxLoss == 1
MaxRunBatches == 6
MaxSteps == 8
MaxHeads == 2
MaxBatch == 2
MaxSeqLen == 2
MaxCells == 4
MaxToken == 1
MaxPrompt == 2
MaxOutput == 2
MaxTemperature == 2
MaxLogit == 1

----------------------------------------------------------------------------
\* Fixed-point arithmetic for the schedule factor.
SCALE == 10^4
PI == 31416

Abs(a) == IF a < 0 THEN 0 - a ELSE a
Mul(a, b) == (a * b) \div SCALE

\* cos(x) for 0 <= x <= pi/4, x in fixed point.
CosSmall(x) ==
    LET x2 == Mul(x, x)
        x4 == Mul(x2, x2)
        x6 == Mul(x4, x2)
    IN  SCALE - (x2 \div 2) + (x4 \div 24) - (x6 \div 720)

\* sin(x) for 0 <= x <= pi/4, x in fixed point.
SinSmall(x) ==
    LET x2 == Mul(x, x)
        x3 == Mul(x2, x)
        x5 == Mul(x3, x2)
        x7 == Mul(x5, x2)
    IN  x - (x3 \div 6) + (x5 \div 120) - (x7 \div 5040)

\* math.cos(math.pi * num / den) for den > 0 and 0 <= num <= den.
CosPiUnit(num, den) ==
    LET half(n) == IF 4 * n <= den THEN CosSmall((PI * n) \div den)
                   ELSE SinSmall((PI * (den - 2 * n)) \div (2 * den))
    IN  IF 2 * num <= den THEN half(num) ELSE 0 - half(den - num)

\* math.cos(math.pi * num / den) for den # 0: cos is even and 2*pi-periodic.
CosPi(num, den) ==
    LET d == Abs(den)
        n == Abs(num) % (2 * d)
    IN  IF n <= d THEN CosPiUnit(n, d) ELSE CosPiUnit(2 * d - n, d)

----------------------------------------------------------------------------
\* warmup_schedule (lines 113-118).
ZeroDivisionError == "ZeroDivisionError"
UnboundLocalError == "UnboundLocalError"

\* Whether warmup_schedule raises: the division of line 115 or of line 117.
warmup_schedule_raises(step, warmup_steps, max_steps) ==
    \/ max_steps = 0
    \/ step <= warmup_steps /\ warmup_steps = 0

\* warmup_schedule without the warm-up branch of lines 116-117.
warmup_schedule_no_ramp(step, warmup_steps, max_steps) ==
    (SCALE + CosPi(step, max_steps)) \div 2
\* The returned lr_factor, in fixed point, when it does not raise.
warmup_schedule(step, warmup_steps, max_steps) ==
    LET lr_factor == (SCALE + CosPi(step, max_steps)) \div 2
    IN  IF step <= warmup_steps
        THEN (lr_factor * step) \div warmup_steps
        ELSE lr_factor

----------------------------------------------------------------------------
\* Exact fractions <<numerator, denominator>>, denominator > 0: the floats
\* loss / len(data) of lines 203-204.
TrueDiv(a, n) == <<a, n>>
Less(a, b) == a[1] * b[2] < b[1] * a[2]
\* min(d.values()) of a non-empty dict d.
MinValue(d) ==
    CHOOSE m \in {d[k] : k \in DOMAIN d} :
        \A k \in DOMAIN d : ~Less(d[k], m)
\* d[k] = v on a dict d.
SetItem(d, k, v) == [e \in DOMAIN d \cup {k} |-> IF e = k THEN v ELSE d[e]]
EmptyDict == [e \in {} |-> 0]

LossVals == 0..MaxLoss
\* Parameter values: two distinguishable values are enough to tell whether
\* an update happened.
ParamVals == {"theta_a", "theta_b"}
\* The values _init_weights (lines 74-79) leaves in the parameters.
InitialParams == "theta_a"

\* The model's parameters live in tensor storage 1 for the whole run.
ModelParam == 1

\* model.state_dict(): a dict of the parameter tensors themselves (they share
\* the model's storage); here the reference to that storage.
state_dict == ModelParam
\* dict.copy() (line 208) is a shallow copy: a new dict holding the same tensors.
dict_copy(sd) == sd
\* model.load_state_dict(sd) (line 219): copies sd's values into the parameters.
load_state_dict(ts, sd) == [ts EXCEPT ![ModelParam] = ts[sd]]

\* math.floor(warmup_epochs * n_batches) of line 177, warmup_epochs = halves / 2.
WarmupSteps(halves, nb) == (halves * nb) \div 2

\* LambdaLR's rate at step index s: base rate times lr_lambda(s).
LambdaLR_lr(base, s, ws, ms) == base * warmup_schedule(s, ws, ms)
\* LambdaLR.__init__ (line 180) performs the initial step: last_epoch becomes 0.
LambdaLR_initial_epoch == 0

\* Lines 139-140 swapped: the scheduler steps before the optimizer.
optimizer_step_rate_swapped(rate_before, rate_after) == rate_after
\* The rate optimizer.step() (line 139) applies: the one in the optimizer
\* before lr_scheduler.step() (line 140) replaces it.
optimizer_step_rate(rate_before, rate_after) == rate_before

\* Line 214 without the break: the loop goes on whatever _early_stop says.
early_stop_no_break(answer) == "epoch_loop"
\* Lines 213-214: break leaves the epoch loop, otherwise the loop continues.
early_stop_target(answer) == IF answer THEN "finalize" ELSE "epoch_loop"

\* The checkpoint test of line 206; val_losses already holds this epoch's loss.
checkpoint_test(ep, vl) == ep = 1 \/ Less(vl[ep], MinValue(vl))

InitTrain ==
    /\ pc = "setup"
    /\ exception = ""
    /\ n_epochs \in (0 - 1)..MaxEpochs
    /\ n_batches \in 0..MaxBatches
    /\ n_val_batches \in 0..MaxValBatches
    /\ n_epochs * (n_batches + n_val_batches) <= MaxRunBatches
    /\ warmup_halves \in 0..MaxWarmupHalves
    /\ learning_rate = 1
    /\ n_warmup_steps = 0
    /\ n_steps = 0
    /\ last_epoch = 0 - 1
    /\ lr = 0
    /\ epoch = 0
    /\ i = 0
    /\ j = 0
    /\ loss_train = 0
    /\ loss_val = 0
    /\ train_losses = EmptyDict
    /\ val_losses = EmptyDict
    /\ best_checkpoint = <<>>
    /\ tensors = [t \in {ModelParam} |-> InitialParams]
    /\ stopped = FALSE
    /\ lr_used = <<>>
    /\ val_steps = 0
    /\ params_hist = EmptyDict

Raise(exc) ==
    /\ pc' = "raised"
    /\ exception' = exc

\* Lines 169-185: the optimizer, the step counts and the scheduler.  LambdaLR's
\* constructor evaluates lrs_fn at step 0.
Setup ==
    /\ TrainOnly
    /\ pc = "setup"
    /\ n_warmup_steps' = WarmupSteps(warmup_halves, n_batches)
    /\ n_steps' = n_epochs * n_batches
    /\ IF warmup_schedule_raises(LambdaLR_initial_epoch, n_warmup_steps', n_steps')
       THEN /\ Raise(ZeroDivisionError)
            /\ UNCHANGED <<last_epoch, lr>>
       ELSE /\ pc' = "epoch_loop"
            /\ last_epoch' = LambdaLR_initial_epoch
            /\ lr' = LambdaLR_lr(learning_rate, LambdaLR_initial_epoch,
                                 n_warmup_steps', n_steps')
            /\ UNCHANGED exception
    /\ UNCHANGED <<n_epochs, n_batches, n_val_batches, warmup_halves, learning_rate,
                   epoch, i, j, loss_train, loss_val, train_losses, val_losses,
                   best_checkpoint, tensors, stopped, lr_used, val_steps, params_hist>>

\* Lines 186-187: the next value of range(1, n_epochs+1), or the loop's end.
EpochLoop ==
    /\ TrainOnly
    /\ pc = "epoch_loop"
    /\ IF epoch + 1 <= n_epochs
       THEN /\ epoch' = epoch + 1
            /\ loss_train' = 0
            /\ i' = 0
            /\ pc' = "train"
       ELSE /\ pc' = "finalize"
            /\ UNCHANGED <<epoch, loss_train, i>>
    /\ UNCHANGED <<exception, n_epochs, n_batches, n_val_batches, warmup_halves,
                   learning_rate, n_warmup_steps, n_steps, last_epoch, lr, j,
                   loss_val, train_losses, val_losses, best_checkpoint, tensors,
                   stopped, lr_used, val_steps, params_hist>>

\* Lines 188-195 with _train_step (121-142): one training batch.  The loss is
\* whatever the batch gives; optimizer.step() updates the parameters in place
\* (not at all when the rate is 0), then lr_scheduler.step() advances.
TrainBatch ==
    /\ TrainOnly
    /\ pc = "train"
    /\ i < n_batches
    /\ \E loss_batch \in LossVals, theta \in ParamVals :
         LET rate_after == LambdaLR_lr(learning_rate, last_epoch + 1,
                                       n_warmup_steps, n_steps)
             rate == optimizer_step_rate(lr, rate_after)
         IN  /\ tensors' = [tensors EXCEPT ![ModelParam] =
                               IF rate = 0 THEN @ ELSE theta]
             /\ lr_used' = Append(lr_used, rate)
             /\ last_epoch' = last_epoch + 1
             /\ lr' = rate_after
             /\ loss_train' = loss_train + loss_batch
    /\ i' = i + 1
    /\ UNCHANGED <<pc, exception, n_epochs, n_batches, n_val_batches, warmup_halves,
                   learning_rate, n_warmup_steps, n_steps, epoch, j, loss_val,
                   train_losses, val_losses, best_checkpoint, stopped, val_steps,
                   params_hist>>

\* Line 197: the training batches are exhausted.
StartValidation ==
    /\ TrainOnly
    /\ pc = "train"
    /\ i = n_batches
    /\ loss_val' = 0
    /\ j' = 0
    /\ pc' = "validate"
    /\ UNCHANGED <<exception, n_epochs, n_batches, n_val_batches, warmup_halves,
                   learning_rate, n_warmup_steps, n_steps, last_epoch, lr, epoch, i,
                   loss_train, train_losses, val_losses, best_checkpoint, tensors,
                   stopped, lr_used, val_steps, params_hist>>

\* Lines 198-201 with _val_step (145-155): one validation batch.
ValBatch ==
    /\ TrainOnly
    /\ pc = "validate"
    /\ j < n_val_batches
    /\ \E loss_batch \in LossVals : loss_val' = loss_val + loss_batch
    /\ j' = j + 1
    /\ val_steps' = val_steps + 1
    /\ UNCHANGED <<pc, exception, n_epochs, n_batches, n_val_batches, warmup_halves,
                   learning_rate, n_warmup_steps, n_steps, last_epoch, lr, epoch, i,
                   loss_train, train_losses, val_losses, best_checkpoint, tensors,
                   stopped, lr_used, params_hist>>

\* Lines 203-204: the epoch's mean losses.  len(train_data) > 0 here (else
\* Setup raised); len(val_data) = 0 raises after train_losses is written.
RecordLosses ==
    /\ TrainOnly
    /\ pc = "validate"
    /\ j = n_val_batches
    /\ train_losses' = SetItem(train_losses, epoch, TrueDiv(loss_train, n_batches))
    /\ IF n_val_batches = 0
       THEN /\ Raise(ZeroDivisionError)
            /\ UNCHANGED <<val_losses, params_hist>>
       ELSE /\ val_losses' = SetItem(val_losses, epoch,
                                     TrueDiv(loss_val, n_val_batches))
            /\ params_hist' = SetItem(params_hist, epoch, tensors[ModelParam])
            /\ pc' = "checkpoint"
            /\ UNCHANGED exception
    /\ UNCHANGED <<n_epochs, n_batches, n_val_batches, warmup_halves, learning_rate,
                   n_warmup_steps, n_steps, last_epoch, lr, epoch, i, j, loss_train,
                   loss_val, best_checkpoint, tensors, stopped, lr_used, val_steps>>

\* Lines 206-211.
CheckpointDecision ==
    /\ TrainOnly
    /\ pc = "checkpoint"
    /\ IF checkpoint_test(epoch, val_losses)
       THEN best_checkpoint' = << [state_dict |-> dict_copy(state_dict),
                                   loss |-> val_losses[epoch],
                                   epoch |-> epoch] >>
       ELSE UNCHANGED best_checkpoint
    /\ pc' = "early_stop"
    /\ UNCHANGED <<exception, n_epochs, n_batches, n_val_batches, warmup_halves,
                   learning_rate, n_warmup_steps, n_steps, last_epoch, lr, epoch, i,
                   j, loss_train, loss_val, train_losses, val_losses, tensors,
                   stopped, lr_used, val_steps, params_hist>>

\* Lines 213-214: _early_stop(val_losses) is defined outside this file; any
\* answer is possible.  True breaks out of the epoch loop.
EarlyStopCheck ==
    /\ TrainOnly
    /\ pc = "early_stop"
    /\ \E answer \in BOOLEAN :
         /\ stopped' = answer
         /\ pc' = early_stop_target(answer)
    /\ UNCHANGED <<exception, n_epochs, n_batches, n_val_batches, warmup_halves,
                   learning_rate, n_warmup_steps, n_steps, last_epoch, lr, epoch, i,
                   j, loss_train, loss_val, train_losses, val_losses,
                   best_checkpoint, tensors, lr_used, val_steps, params_hist>>

\* Lines 216-221: read best_checkpoint (unbound when no epoch ran), load its
\* state dict into the model and return the histories.
Finalize ==
    /\ TrainOnly
    /\ pc = "finalize"
    /\ IF best_checkpoint = <<>>
       THEN /\ Raise(UnboundLocalError)
            /\ UNCHANGED tensors
       ELSE /\ tensors' = load_state_dict(tensors, best_checkpoint[1].state_dict)
            /\ pc' = "returned"
            /\ UNCHANGED exception
    /\ UNCHANGED <<n_epochs, n_batches, n_val_batches, warmup_halves, learning_rate,
                   n_warmup_steps, n_steps, last_epoch, lr, epoch, i, j, loss_train,
                   loss_val, train_losses, val_losses, best_checkpoint, stopped,
                   lr_used, val_steps, params_hist>>

----------------------------------------------------------------------------
\* warmup_schedule called the way LambdaLR calls it: at step 0, 1, 2, ...
\* up to max_steps, for given warmup_steps and max_steps.
InitSchedule ==
    /\ ws_warmup \in 0..MaxSteps
    /\ ws_max \in 1..MaxSteps
    /\ ws_step = 0 - 1
    /\ ws_prev = 0
    /\ ws_factor = 0
    /\ ws_exception = ""

ScheduleCall ==
    /\ ScheduleOnly
    /\ ws_step < ws_max
    /\ ws_step' = ws_step + 1
    /\ IF warmup_schedule_raises(ws_step', ws_warmup, ws_max)
       THEN /\ ws_exception' = ZeroDivisionError
            /\ UNCHANGED <<ws_prev, ws_factor>>
       ELSE /\ ws_exception' = ""
            /\ ws_prev' = ws_factor
            /\ ws_factor' = warmup_schedule(ws_step', ws_warmup, ws_max)
    /\ UNCHANGED <<ws_warmup, ws_max>>

----------------------------------------------------------------------------
\* NextWordPredictionTransformer.forward and _make_mask (lines 59-86).
\* A batch is a function 1..batch -> (0..seq_len-1 -> token); a 3-d tensor is
\* a function slice -> (row -> (column -> value)).
Tokens == 0..MaxToken

Size0(x) == Cardinality(DOMAIN x)
Size1(x) == Cardinality(DOMAIN x[1])

\* torch.ones(n, r, c)
ones(n, r, c) == [k \in 1..n |-> [a \in 0..(r - 1) |-> [b \in 0..(c - 1) |-> 1]]]
\* tril with the diagonal dropped (diagonal=-1).
tril_strict(t) ==
    [k \in DOMAIN t |-> [a \in DOMAIN t[k] |-> [b \in DOMAIN t[k][a] |->
        IF b < a THEN t[k][a][b] ELSE 0]]]
\* torch.tril(t): the lower triangle of every slice, diagonal included.
tril(t) ==
    [k \in DOMAIN t |-> [a \in DOMAIN t[k] |-> [b \in DOMAIN t[k][a] |->
        IF b <= a THEN t[k][a][b] ELSE 0]]]
\* t == 0, elementwise
EqZero(t) ==
    [k \in DOMAIN t |-> [a \in DOMAIN t[k] |-> [b \in DOMAIN t[k][a] |->
        t[k][a][b] = 0]]]

\* _make_mask (lines 81-86): <<causal_mask, padding_mask>>.
make_mask(x, heads, pad) ==
    LET causal_mask == EqZero(tril(ones(Size0(x) * heads, Size1(x), Size1(x))))
        padding_mask == [b \in DOMAIN x |-> [p \in DOMAIN x[b] |-> x[b][p] = pad]]
    IN  <<causal_mask, padding_mask>>

Shapes == {s \in (1..MaxBatch) \X (1..MaxSeqLen) : s[1] * s[2] <= MaxCells}
Batches == UNION {[1..s[1] -> [0..(s[2] - 1) -> Tokens]] : s \in Shapes}

InitMask ==
    /\ n_heads \in 1..MaxHeads
    /\ pad_token_idx \in Tokens
    /\ x_batch \in Batches
    /\ tgt_mask = <<>>
    /\ memory_mask = <<>>
    /\ tgt_key_padding_mask = <<>>
    /\ memory_key_padding_mask = <<>>

\* forward (lines 59-72): the masks handed to the decoder layer.
Forward ==
    /\ MaskOnly
    /\ tgt_mask = <<>>
    /\ LET m == make_mask(x_batch, n_heads, pad_token_idx)
       IN  /\ tgt_mask' = m[1]
           /\ memory_mask' = m[1]
           /\ tgt_key_padding_mask' = m[2]
           /\ memory_key_padding_mask' = m[2]
    /\ UNCHANGED <<n_heads, pad_token_idx, x_batch>>

----------------------------------------------------------------------------
\* generate (lines 224-251).
LogitVals == 0..MaxLogit

\* Line 240 without .copy(): both names refer to the one list object.
list_alias(heap, ref) == [heap |-> heap, ref |-> ref]
\* list.copy() (line 240): a new list object with the same items.  Returns
\* the heap with the new object and the reference to it.
list_copy(heap, ref) == [heap |-> Append(heap, heap[ref]), ref |-> Len(heap) + 1]

\* temperature * token_logits[0, -1] (line 244)
scale_logits(temp, logits) == [t \in DOMAIN logits |-> temp * logits[t]]

Prompts == UNION {[1..l -> Tokens] : l \in 1..MaxPrompt}

InitGenerate ==
    /\ gen_pc = "start"
    /\ lists = <<>>
    /\ prompt_tokens = 0
    /\ token_sequence = 0
    /\ output_length \in 0..MaxOutput
    /\ temperature \in 1..MaxTemperature
    /\ iteration = 0
    /\ sampler_logits = <<>>
    /\ raw_logits = <<>>
    /\ new_token_sequence = <<>>
    /\ prompt_given \in Prompts
    /\ model_inputs = <<>>
    /\ sampled = <<>>

\* Lines 234-240: the tokenizer returns the prompt's token list; the loop
\* works on a copy of it.
Tokenize ==
    /\ GenerateOnly
    /\ gen_pc = "start"
    /\ LET made == list_copy(<<prompt_given>>, 1)
       IN  /\ lists' = made.heap
           /\ prompt_tokens' = 1
           /\ token_sequence' = made.ref
    /\ gen_pc' = "loop"
    /\ UNCHANGED <<output_length, temperature, iteration, sampler_logits,
                   raw_logits, new_token_sequence, prompt_given, model_inputs,
                   sampled>>

\* Lines 241-245: one iteration.  The model's logits at the last position are
\* whatever the weights give; Categorical can sample any token.
SampleToken ==
    /\ GenerateOnly
    /\ gen_pc = "loop"
    /\ iteration < output_length
    /\ \E token_logits \in [Tokens -> LogitVals], token_pred \in Tokens :
         /\ raw_logits' = token_logits
         /\ sampler_logits' = scale_logits(temperature, token_logits)
         /\ lists' = [lists EXCEPT ![token_sequence] = @ \o <<token_pred>>]
         /\ sampled' = Append(sampled, token_pred)
    /\ model_inputs' = Append(model_inputs, lists[token_sequence])
    /\ iteration' = iteration + 1
    /\ UNCHANGED <<gen_pc, prompt_tokens, token_sequence, output_length,
                   temperature, new_token_sequence, prompt_given>>

\* Lines 247-251: the tokens after the prompt are detokenized.
Detokenize ==
    /\ GenerateOnly
    /\ gen_pc = "loop"
    /\ iteration = output_length
    /\ new_token_sequence' = SubSeq(lists[token_sequence],
                                    Len(lists[prompt_tokens]) + 1,
                                    Len(lists[token_sequence]))
    /\ gen_pc' = "done"
    /\ UNCHANGED <<lists, prompt_tokens, token_sequence, output_length,
                   temperature, iteration, sampler_logits, raw_logits,
                   prompt_given, model_inputs, sampled>>

----------------------------------------------------------------------------
\* Each part of the file is a specification of its own; the variables of the
\* other parts stay at rest.
IdleTrain ==
    /\ pc = "idle" /\ exception = "" /\ n_epochs = 0 /\ n_batches = 0
    /\ n_val_batches = 0 /\ warmup_halves = 0 /\ learning_rate = 0
    /\ n_warmup_steps = 0 /\ n_steps = 0 /\ last_epoch = 0 /\ lr = 0
    /\ epoch = 0 /\ i = 0 /\ j = 0 /\ loss_train = 0 /\ loss_val = 0
    /\ train_losses = EmptyDict /\ val_losses = EmptyDict
    /\ best_checkpoint = <<>> /\ tensors = <<>> /\ stopped = FALSE
    /\ lr_used = <<>> /\ val_steps = 0 /\ params_hist = EmptyDict
IdleSchedule ==
    /\ ws_step = 0 /\ ws_warmup = 0 /\ ws_max = 0 /\ ws_prev = 0
    /\ ws_factor = 0 /\ ws_exception = "idle"
IdleMask ==
    /\ n_heads = 0 /\ pad_token_idx = 0 /\ x_batch = <<>> /\ tgt_mask = <<>>
    /\ memory_mask = <<>> /\ tgt_key_padding_mask = <<>>
    /\ memory_key_padding_mask = <<>>
IdleGenerate ==
    /\ gen_pc = "idle" /\ lists = <<>> /\ prompt_tokens = 0
    /\ token_sequence = 0 /\ output_length = 0 /\ temperature = 0
    /\ iteration = 0 /\ sampler_logits = <<>> /\ raw_logits = <<>>
    /\ new_token_sequence = <<>> /\ prompt_given = <<>> /\ model_inputs = <<>>
    /\ sampled = <<>>

Init == InitTrain /\ IdleSchedule /\ IdleMask /\ IdleGenerate
Next ==
    \/ Setup
    \/ EpochLoop
    \/ TrainBatch
    \/ StartValidation
    \/ ValBatch
    \/ RecordLosses
    \/ CheckpointDecision
    \/ EarlyStopCheck
    \/ Finalize
Spec == Init /\ [][Next]_vars

InitS == IdleTrain /\ InitSchedule /\ IdleMask /\ IdleGenerate
NextS == ScheduleCall
SpecSchedule == InitS /\ [][NextS]_vars

InitM == IdleTrain /\ IdleSchedule /\ InitMask /\ IdleGenerate
NextM == Forward
SpecMask == InitM /\ [][NextM]_vars

InitG == IdleTrain /\ IdleSchedule /\ IdleMask /\ InitGenerate
NextG ==
    \/ Tokenize
    \/ SampleToken
    \/ Detokenize
SpecGenerate == InitG /\ [][NextG]_vars

----------------------------------------------------------------------------
\* Properties of train (checked under Spec).

\* The epochs whose validation loss is the lowest recorded.
BestEpochs == {e \in DOMAIN val_losses : ~Less(MinValue(val_losses), val_losses[e])}
\* Setup got past the construction of the scheduler.
SchedulerBuilt == pc \notin {"setup", "idle"} /\ last_epoch >= 0

\* C1: after the checkpoint decision of every completed epoch k, the loss kept
\* in the best checkpoint is the minimum of the validation losses of epochs
\* 1..k, and the epoch kept is one that attained that minimum.
C1_CheckpointIsMinimum ==
    pc = "early_stop" =>
        /\ best_checkpoint # <<>>
        /\ best_checkpoint[1].loss = MinValue(val_losses)
        /\ best_checkpoint[1].epoch \in BestEpochs

\* C2: when train returns, the model's parameters are those it had at the end
\* of an epoch with the lowest validation loss of the run.
C2_ReturnsBestParameters ==
    pc = "returned" =>
        \E e \in BestEpochs : tensors[ModelParam] = params_hist[e]

\* C3: with warmup_steps = 0 and max_steps >= 1 the schedule has no warm-up
\* phase and train raises no division-by-zero error from it.
C3_NoWarmupNoZeroDivision ==
    ~ ( /\ pc = "raised"
        /\ exception = ZeroDivisionError
        /\ last_epoch < 0
        /\ n_warmup_steps = 0
        /\ n_steps >= 1 )

\* C4: once the early-stopping predicate has returned true after epoch k, no
\* further training or validation batch runs and train goes to FINALIZE; the
\* histories train returns have the keys 1..k, or 1..n_epochs when it never
\* returned true; and an entry of a history, once written, never changes.
C4_AtReturn ==
    /\ stopped => pc \in {"finalize", "returned"} /\ epoch \in 1..n_epochs
    /\ pc = "returned" =>
        /\ DOMAIN train_losses = 1..epoch
        /\ DOMAIN val_losses = 1..epoch
        /\ ~stopped => epoch = n_epochs
        /\ Len(lr_used) = epoch * n_batches
        /\ val_steps = epoch * n_val_batches
C4_Step ==
    /\ \A e \in DOMAIN train_losses :
         e \in DOMAIN train_losses' /\ train_losses'[e] = train_losses[e]
    /\ \A e \in DOMAIN val_losses :
         e \in DOMAIN val_losses' /\ val_losses'[e] = val_losses[e]
    /\ stopped => /\ stopped'
                  /\ epoch' = epoch
                  /\ lr_used' = lr_used
                  /\ val_steps' = val_steps
\* C4: C4_AtReturn holds in every state and C4_Step on every step: an early
\* stop after epoch k ends the run with histories keyed 1..k, entries unchanged.
C4_EarlyStopEndsTheRun == [](C4_AtReturn) /\ [][C4_Step]_vars
C4_Witness ==
    /\ pc = "returned"
    /\ stopped
    /\ epoch = 1
    /\ n_epochs >= 2
    /\ n_batches >= 1

\* C9: train does not reach FINALIZE unless an epoch has completed and a best
\* checkpoint has been assigned.
C9_FinalizeHasCheckpoint ==
    pc = "finalize" => epoch >= 1 /\ best_checkpoint # <<>>

\* C10, the part about the steps: every training batch is one optimizer
\* step followed by one scheduler step, validation batches are neither; the k-th optimizer step is
\* applied with rate base * factor(k-1), the first with rate 0 under warm-up;
\* the schedule's step index is the number of training batches processed.
C10_Steps ==
    /\ Len(lr_used) = (IF epoch = 0 THEN 0 ELSE (epoch - 1) * n_batches + i)
    /\ last_epoch = Len(lr_used)
    /\ lr = learning_rate * warmup_schedule(last_epoch, n_warmup_steps, n_steps)
    /\ \A k \in 1..Len(lr_used) :
         lr_used[k] = learning_rate * warmup_schedule(k - 1, n_warmup_steps, n_steps)
    /\ n_warmup_steps >= 1 /\ Len(lr_used) >= 1 => lr_used[1] = 0
\* C10 as stated: C10_Steps, and the step index never exceeds max_steps.
C10_StepPerTrainingBatch ==
    SchedulerBuilt => C10_Steps /\ last_epoch <= n_steps
\* C10 (amended): the same, the bound last_epoch <= max_steps claimed for
\* n_epochs >= 0 only.
C10_StepPerTrainingBatchNonNegative ==
    SchedulerBuilt => C10_Steps /\ (n_epochs >= 0 => last_epoch <= n_steps)
C10_Witness ==
    /\ SchedulerBuilt
    /\ pc = "returned"
    /\ n_warmup_steps >= 1
    /\ Len(lr_used) >= 3
    /\ val_steps >= 1
    /\ lr_used[1] = 0
    /\ lr_used[2] > 0
    /\ last_epoch = n_steps

----------------------------------------------------------------------------
\* Properties of warmup_schedule (checked under SpecSchedule).

\* C5 (as stated): for 1 <= warmup_steps <= max_steps the factor does not
\* decrease from step s to step s+1 for 0 <= s < warmup_steps.
C5_MonotoneOnWarmup ==
    ( /\ 1 <= ws_warmup /\ ws_warmup <= ws_max
      /\ 1 <= ws_step /\ ws_step <= ws_warmup ) => ws_prev <= ws_factor
\* C5 (amended): the same for 1 <= warmup_steps and
\* 5 * warmup_steps <= 2 * max_steps.
C5_MonotoneOnShortWarmup ==
    ( /\ 1 <= ws_warmup /\ 5 * ws_warmup <= 2 * ws_max
      /\ 1 <= ws_step /\ ws_step <= ws_warmup ) => ws_prev <= ws_factor
C5_Witness ==
    /\ ws_warmup = 3
    /\ 5 * ws_warmup <= 2 * ws_max
    /\ ws_step = ws_warmup
    /\ 0 < ws_prev
    /\ ws_prev < ws_factor

----------------------------------------------------------------------------
\* Properties of _make_mask and forward (checked under SpecMask).

\* C6: the causal mask has batch * n_heads slices and each of them forbids
\* the pair (query i, key j) exactly when j > i, whatever the tokens are.
C6_CausalMask ==
    (n_heads >= 1 /\ tgt_mask # <<>>) =>
        /\ memory_mask = tgt_mask
        /\ DOMAIN tgt_mask = 1..(Size0(x_batch) * n_heads)
        /\ \A k \in DOMAIN tgt_mask :
             /\ DOMAIN tgt_mask[k] = 0..(Size1(x_batch) - 1)
             /\ \A a \in DOMAIN tgt_mask[k] :
                  /\ DOMAIN tgt_mask[k][a] = 0..(Size1(x_batch) - 1)
                  /\ \A b \in DOMAIN tgt_mask[k][a] :
                       tgt_mask[k][a][b] <=> (b > a)
C6_Witness ==
    /\ n_heads = 2
    /\ tgt_mask # <<>>
    /\ Size0(x_batch) = 2
    /\ Size1(x_batch) = 2
    /\ x_batch[1] # x_batch[2]
    /\ \E b \in DOMAIN x_batch : \E p \in DOMAIN x_batch[b] : tgt_key_padding_mask[b][p]

----------------------------------------------------------------------------
\* Properties of generate (checked under SpecGenerate).

\* C7: a higher temperature flattens the distribution: the logits handed to
\* the sampler at the temperature in use are no further apart than they would
\* be at any lower temperature.
C7_HigherTemperatureFlattens ==
    iteration >= 1 =>
        \A t1 \in 1..(temperature - 1) : \A a, b \in Tokens :
            Abs(sampler_logits[a] - sampler_logits[b]) <=
                Abs(scale_logits(t1, raw_logits)[a] - scale_logits(t1, raw_logits)[b])

\* C8: generate runs output_length iterations; iteration n feeds the model
\* the prompt followed by the tokens sampled in iterations 1..n-1; the tokens
\* detokenized are exactly the sampled ones; the prompt's list is not mutated.
C8_GenerateSequence ==
    gen_pc \in {"loop", "done"} =>
        /\ iteration <= output_length
        /\ Len(model_inputs) = iteration
        /\ Len(sampled) = iteration
        /\ \A n \in 1..iteration :
             model_inputs[n] = prompt_given \o SubSeq(sampled, 1, n - 1)
        /\ lists[prompt_tokens] = prompt_given
        /\ gen_pc = "done" =>
             /\ iteration = output_length
             /\ new_token_sequence = sampled
C8_Witness ==
    /\ gen_pc = "done"
    /\ output_length >= 2
    /\ Len(prompt_given) >= 2
    /\ sampled[1] # sampled[2]
    /\ new_token_sequence = sampled

====
